---- MODULE Spec2Model ----
(***************************************************************************)
(* Model of the ED pain-audit data pipeline of src/data_utils.py.          *)
(*                                                                         *)
(* A pandas DataFrame is a record [cols, rows]: cols is the set of column  *)
(* names and rows the sequence of rows, each a function from cols to a     *)
(* cell.  A cell is a tagged record: NaN (pandas NaN / NaT / None),        *)
(* Num(n) (a number; minute-resolution values, so integers), Str(s) (a     *)
(* label), Text(cs) (free text, the sequence cs of its characters) or      *)
(* Ts(m) (a timestamp, in minutes since an epoch: the parse format         *)
(* '%d-%b-%y %H:%M' has no seconds).                                       *)
(*                                                                         *)
(* Every function of the source is an operator of the same name from its   *)
(* arguments to its return value; the actions call them on inputs drawn    *)
(* by the initial predicates.                                              *)
(***************************************************************************)
EXTENDS Integers, Sequences, FiniteSets, TLC

VARIABLES df, df_in, imd_df, ret, pc

vars == <<df, df_in, imd_df, ret, pc>>

(***************************************************************************)
(* Bounds of the model.                                                    *)
(***************************************************************************)
\* rows of a table whose rows range over a small set of cells
MaxRows == 2
\* rows of a table whose rows range over a large set of cells
MaxWideRows == 1
\* entries of the deprivation reference file
MaxRef == 2

(***************************************************************************)
(* Cells and tables.                                                       *)
(***************************************************************************)
NaN == [t |-> "nan"]

Num(n) == [t |-> "num", n |-> n]

Str(s) == [t |-> "str", s |-> s]

Ts(m) == [t |-> "ts", m |-> m]

Text(cs) == [t |-> "text", cs |-> cs]

\* the value of a name not bound to an object (Python None)
None == [t |-> "none"]

\* pd.isna(x)
isna(x) == x = NaN

\* x <= n on a column or a scalar: False where x is NaN
Le(x, n) == x.t = "num" /\ x.n <= n

\* x > n: False where x is NaN
Gt(x, n) == x.t = "num" /\ x.n > n

\* column == 'label': False where the cell is NaN or another label
Eq(x, s) == x = Str(s)

\* df[name] = values : adds or overwrites column name, row i getting f[i]
SetColumn(d, name, f) ==
  [cols |-> d.cols \cup {name},
   rows |-> [i \in 1..Len(d.rows) |->
               [c \in d.cols \cup {name} |->
                  IF c = name THEN f[i] ELSE d.rows[i][c]]]]

\* len(df[mask]), mask a boolean Series over the rows of d
CountRows(d, mask) == Cardinality({i \in 1..Len(d.rows) : mask[i]})

\* all tables with the given columns and at most n rows taken from RowSet
Tables(cols, RowSet, n) ==
  {[cols |-> cols, rows |-> s] : s \in UNION {[1..k -> RowSet] : k \in 0..n}}

(***************************************************************************)
(* calculate_best_practice (data_utils.py 128-213)                         *)
(***************************************************************************)
condition_mod(r) ==
  /\ Eq(r["First Pain Score"], "Mod Pain")
  /\ Le(r["Time_to_A1_Mins"], 15)
  /\ Le(r["A1_to_PS2_Mins"], 30)
  /\ Gt(r["A1_to_PS2_Mins"], 0)

condition_sev(r) ==
  /\ Eq(r["First Pain Score"], "Sev Pain")
  /\ Le(r["Time_to_A1_Mins"], 15)
  /\ Le(r["A1_to_PS2_Mins"], 15)
  /\ Gt(r["A1_to_PS2_Mins"], 0)

\* a variant of Best_Practice without the strict-positivity test
Best_Practice_nonstrict(r) ==
  IF /\ Le(r["Time_to_PS1_Mins"], 15)
     /\ \/ /\ Eq(r["First Pain Score"], "Mod Pain")
           /\ Le(r["Time_to_A1_Mins"], 15)
           /\ Le(r["A1_to_PS2_Mins"], 30)
        \/ /\ Eq(r["First Pain Score"], "Sev Pain")
           /\ Le(r["Time_to_A1_Mins"], 15)
           /\ Le(r["A1_to_PS2_Mins"], 15)
  THEN Str("Yes") ELSE Str("No")

\* the np.where of lines 146-149, for one row
Best_Practice(r) ==
  IF Le(r["Time_to_PS1_Mins"], 15) /\ (condition_mod(r) \/ condition_sev(r))
  THEN Str("Yes") ELSE Str("No")

\* df after line 149
WithBestPractice(d) ==
  SetColumn(d, "Best_Practice", [i \in 1..Len(d.rows) |-> Best_Practice(d.rows[i])])

total_patients(d) == Len(d.rows)

ps1_15_mins(d) ==
  LET M(r) == Le(r["Time_to_PS1_Mins"], 15) IN CountRows(d, [i \in 1..Len(d.rows) |-> M(d.rows[i])])

severe_ps1_15_mins(d) ==
  LET M(r) == Eq(r["First Pain Score"], "Sev Pain") /\ Le(r["Time_to_PS1_Mins"], 15)
  IN CountRows(d, [i \in 1..Len(d.rows) |-> M(d.rows[i])])

moderate_ps1_15_mins(d) ==
  LET M(r) == Eq(r["First Pain Score"], "Mod Pain") /\ Le(r["Time_to_PS1_Mins"], 15)
  IN CountRows(d, [i \in 1..Len(d.rows) |-> M(d.rows[i])])

best_practice_yes(d) ==
  LET M(r) == Eq(r["Best_Practice"], "Yes") IN CountRows(d, [i \in 1..Len(d.rows) |-> M(d.rows[i])])

best_practice_no(d) ==
  LET M(r) == Eq(r["Best_Practice"], "No") IN CountRows(d, [i \in 1..Len(d.rows) |-> M(d.rows[i])])

severe_ps1_a1_15_mins(d) ==
  LET M(r) == /\ Eq(r["First Pain Score"], "Sev Pain")
              /\ Le(r["Time_to_PS1_Mins"], 15)
              /\ Le(r["Time_to_A1_Mins"], 15)
  IN CountRows(d, [i \in 1..Len(d.rows) |-> M(d.rows[i])])

moderate_ps1_a1_15_mins(d) ==
  LET M(r) == /\ Eq(r["First Pain Score"], "Mod Pain")
              /\ Le(r["Time_to_PS1_Mins"], 15)
              /\ Le(r["Time_to_A1_Mins"], 15)
  IN CountRows(d, [i \in 1..Len(d.rows) |-> M(d.rows[i])])

\* a variant of severe_best_practice that forgets the severity test
severe_best_practice_any(d) ==
  LET M(r) == Eq(r["Best_Practice"], "Yes") IN CountRows(d, [i \in 1..Len(d.rows) |-> M(d.rows[i])])

severe_best_practice(d) ==
  LET M(r) == Eq(r["First Pain Score"], "Sev Pain") /\ Eq(r["Best_Practice"], "Yes")
  IN CountRows(d, [i \in 1..Len(d.rows) |-> M(d.rows[i])])

moderate_best_practice(d) ==
  LET M(r) == Eq(r["First Pain Score"], "Mod Pain") /\ Eq(r["Best_Practice"], "Yes")
  IN CountRows(d, [i \in 1..Len(d.rows) |-> M(d.rows[i])])

\* one f-string of the labels list: the node's text and the count it shows
Label(text, n) == [text |-> text, n |-> n]

\* labels[k+1] is the label of node k (Python index k); d has Best_Practice
labels(d) ==
  << Label("Total Patients", total_patients(d)),
     Label("PS1 <= 15 Mins", ps1_15_mins(d)),
     Label("PS1 > 15 Mins", total_patients(d) - ps1_15_mins(d)),
     Label("Severe Pain (PS1 <= 15 Mins)", severe_ps1_15_mins(d)),
     Label("Moderate Pain (PS1 <= 15 Mins)", moderate_ps1_15_mins(d)),
     Label("Sev Pain (PS1 & A1 <= 15 Mins)", severe_ps1_a1_15_mins(d)),
     Label("Mod Pain (PS1 & A1 <= 15 Mins)", moderate_ps1_a1_15_mins(d)),
     Label("Sev Pain (PS1&A1>15Mins)", severe_ps1_15_mins(d) - severe_ps1_a1_15_mins(d)),
     Label("Mod Pain (PS1&A1>15Mins)", moderate_ps1_15_mins(d) - moderate_ps1_a1_15_mins(d)),
     Label("Severe Pain Best Practice", severe_best_practice(d)),
     Label("Moderate Pain Best Practice", moderate_best_practice(d)),
     Label("Sev Pain (No Best Practice)", severe_ps1_a1_15_mins(d) - severe_best_practice(d)),
     Label("Mod Pain (No Best Practice)", moderate_ps1_a1_15_mins(d) - moderate_best_practice(d)) >>

source == <<0, 0, 1, 1, 3, 3, 4, 4, 5, 5, 6, 6>>

target == <<1, 2, 3, 4, 5, 7, 6, 8, 9, 11, 10, 12>>

\* a variant of value whose Severe A1>15 edge is subtracted the wrong way round
value_swapped(d) ==
  << ps1_15_mins(d),
     total_patients(d) - ps1_15_mins(d),
     severe_ps1_15_mins(d),
     moderate_ps1_15_mins(d),
     severe_ps1_a1_15_mins(d),
     severe_ps1_a1_15_mins(d) - severe_ps1_15_mins(d),
     moderate_ps1_a1_15_mins(d),
     moderate_ps1_15_mins(d) - moderate_ps1_a1_15_mins(d),
     severe_best_practice(d),
     severe_ps1_a1_15_mins(d) - severe_best_practice(d),
     moderate_best_practice(d),
     moderate_ps1_a1_15_mins(d) - moderate_best_practice(d) >>

value(d) ==
  << ps1_15_mins(d),
     total_patients(d) - ps1_15_mins(d),
     severe_ps1_15_mins(d),
     moderate_ps1_15_mins(d),
     severe_ps1_a1_15_mins(d),
     severe_ps1_15_mins(d) - severe_ps1_a1_15_mins(d),
     moderate_ps1_a1_15_mins(d),
     moderate_ps1_15_mins(d) - moderate_ps1_a1_15_mins(d),
     severe_best_practice(d),
     severe_ps1_a1_15_mins(d) - severe_best_practice(d),
     moderate_best_practice(d),
     moderate_ps1_a1_15_mins(d) - moderate_best_practice(d) >>

\* the returned tuple (df, {...})
calculate_best_practice(d) ==
  LET b == WithBestPractice(d) IN
  [df |-> b,
   sankey |-> [labels |-> labels(b),
               source |-> source,
               target |-> target,
               value |-> value(b),
               total_patients |-> total_patients(b),
               best_practice_yes |-> best_practice_yes(b),
               best_practice_no |-> best_practice_no(b)]]

(***************************************************************************)
(* Inputs of calculate_best_practice: tables that carry the label and the  *)
(* three intervals it reads, and one column it does not read.              *)
(***************************************************************************)
BPCols ==
  {"First Pain Score", "Time_to_PS1_Mins", "Time_to_A1_Mins", "A1_to_PS2_Mins",
   "Second Pain Score"}

BPRow(fps, ps1, a1, a1ps2, sps) ==
  [c \in BPCols |->
     CASE c = "First Pain Score" -> fps
       [] c = "Time_to_PS1_Mins" -> ps1
       [] c = "Time_to_A1_Mins" -> a1
       [] c = "A1_to_PS2_Mins" -> a1ps2
       [] c = "Second Pain Score" -> sps]

\* The intervals come from calculate_time_intervals: Time_to_A1 is NaN when
\* Arrival or First Analgesia is NaT, so a NaN Time_to_A1 beside a number in
\* A1_to_PS2 means Arrival is NaT and Time_to_PS1 is NaN too.
Derivable(ps1, a1, a1ps2) ==
  (isna(a1) /\ ~isna(a1ps2)) => isna(ps1)

WideBPRows ==
  {BPRow(fps, ps1, a1, a1ps2, sps) :
     fps \in {NaN, Str("Mild Pain"), Str("Mod Pain"), Str("Sev Pain")},
     ps1 \in {NaN, Num(15), Num(16)},
     a1 \in {NaN, Num(15), Num(16)},
     a1ps2 \in {NaN, Num(-5), Num(0), Num(15), Num(16), Num(30), Num(31)},
     sps \in {Str("No Pain"), Str("Sev Pain")}}

FunnelBPRows ==
  {BPRow(fps, ps1, a1, a1ps2, Str("No Pain")) :
     fps \in {Str("Mild Pain"), Str("Mod Pain"), Str("Sev Pain")},
     ps1 \in {NaN, Num(15), Num(16)},
     a1 \in {NaN, Num(15), Num(16)},
     a1ps2 \in {NaN, Num(15), Num(16)}}

DerivableRow(r) ==
  Derivable(r["Time_to_PS1_Mins"], r["Time_to_A1_Mins"], r["A1_to_PS2_Mins"])

InitCall(d, imd) ==
  /\ df = d
  /\ df_in = d
  /\ imd_df = imd
  /\ ret = None
  /\ pc = "start"

\* one record (or a few), every boundary of every threshold
InitRecord ==
  \E d \in Tables(BPCols, {r \in WideBPRows : DerivableRow(r)}, MaxWideRows) :
    InitCall(d, None)

\* datasets of several records
InitFunnel ==
  \E d \in Tables(BPCols, {r \in FunnelBPRows : DerivableRow(r)}, MaxRows) :
    InitCall(d, None)

\* df = calculate_best_practice(df): the column is assigned in place and the
\* tuple is returned
CalculateBestPractice ==
  /\ pc = "start"
  /\ ret' = calculate_best_practice(df)
  /\ df' = ret'.df
  /\ pc' = "calculate_best_practice"
  /\ UNCHANGED <<df_in, imd_df>>

SpecRecord == InitRecord /\ [][CalculateBestPractice]_vars

SpecFunnel == InitFunnel /\ [][CalculateBestPractice]_vars

(***************************************************************************)
(* Properties of calculate_best_practice.                                  *)
(***************************************************************************)
Returned == pc = "calculate_best_practice"

\* the number of records of the table passed in that satisfy P
Records(mask) == Cardinality({i \in 1..Len(df_in.rows) : mask[i]})

\* the rows of the table passed in
Rows == df_in.rows

IsNum(x) == x.t = "num"

\* the compliance rule on the label and the three intervals of a record
C1_Compliant(r) ==
  /\ IsNum(r["Time_to_PS1_Mins"]) /\ r["Time_to_PS1_Mins"].n <= 15
  /\ IsNum(r["Time_to_A1_Mins"]) /\ r["Time_to_A1_Mins"].n <= 15
  /\ IsNum(r["A1_to_PS2_Mins"]) /\ 0 < r["A1_to_PS2_Mins"].n
  /\ \/ r["First Pain Score"] = Str("Mod Pain") /\ r["A1_to_PS2_Mins"].n <= 30
     \/ r["First Pain Score"] = Str("Sev Pain") /\ r["A1_to_PS2_Mins"].n <= 15

NodeCount(k) == ret.sankey.labels[k + 1].n

\* the edges that leave node k
OutEdges(k) == {e \in 1..Len(ret.sankey.source) : ret.sankey.source[e] = k}

RECURSIVE SumValues(_)
SumValues(E) ==
  IF E = {} THEN 0
  ELSE LET e == CHOOSE x \in E : TRUE IN ret.sankey.value[e] + SumValues(E \ {e})

\* C2: the count of every funnel node that has outgoing edges is the sum of
\* the values of its outgoing edges.
C2_FunnelAdditivity ==
  Returned =>
    \A k \in 0..12 : OutEdges(k) # {} => NodeCount(k) = SumValues(OutEdges(k))

\* C3: each of the 12 edge values is a non-negative integer no larger than
\* the count of the edge's source node.
C3_FunnelMonotonicity ==
  Returned =>
    /\ Len(ret.sankey.value) = 12
    /\ \A e \in 1..12 :
         /\ ret.sankey.value[e] \in Nat
         /\ ret.sankey.value[e] <= NodeCount(ret.sankey.source[e])

\* both a Severe "A1 > 15" and a Severe "No Best Practice" record were counted
C3_Witness ==
  /\ Returned
  /\ ret.sankey.value[6] > 0
  /\ ret.sankey.value[10] > 0

PS1Within(r) == IsNum(r["Time_to_PS1_Mins"]) /\ r["Time_to_PS1_Mins"].n <= 15

PS1Over(r) == IsNum(r["Time_to_PS1_Mins"]) /\ r["Time_to_PS1_Mins"].n > 15

A1Within(r) == IsNum(r["Time_to_A1_Mins"]) /\ r["Time_to_A1_Mins"].n <= 15

Severe(r) == r["First Pain Score"] = Str("Sev Pain")

Moderate(r) == r["First Pain Score"] = Str("Mod Pain")

\* the values of the edges other than Total -> "PS1 > 15 Mins" count the
\* records that satisfy the predicate of the edge's target node
C4_OtherEdges ==
  LET v == ret.sankey.value
      P1(r) == PS1Within(r)
      P3(r) == Severe(r) /\ PS1Within(r)
      P4(r) == Moderate(r) /\ PS1Within(r)
      P5(r) == Severe(r) /\ PS1Within(r) /\ A1Within(r)
      P6(r) == Severe(r) /\ PS1Within(r) /\ ~A1Within(r)
      P7(r) == Moderate(r) /\ PS1Within(r) /\ A1Within(r)
      P8(r) == Moderate(r) /\ PS1Within(r) /\ ~A1Within(r)
      P9(r) == Severe(r) /\ C1_Compliant(r)
      P10(r) == Severe(r) /\ PS1Within(r) /\ A1Within(r) /\ ~C1_Compliant(r)
      P11(r) == Moderate(r) /\ C1_Compliant(r)
      P12(r) == Moderate(r) /\ PS1Within(r) /\ A1Within(r) /\ ~C1_Compliant(r)
  IN /\ v[1] = Records([i \in DOMAIN Rows |-> P1(Rows[i])])
     /\ v[3] = Records([i \in DOMAIN Rows |-> P3(Rows[i])])
     /\ v[4] = Records([i \in DOMAIN Rows |-> P4(Rows[i])])
     /\ v[5] = Records([i \in DOMAIN Rows |-> P5(Rows[i])])
     /\ v[6] = Records([i \in DOMAIN Rows |-> P6(Rows[i])])
     /\ v[7] = Records([i \in DOMAIN Rows |-> P7(Rows[i])])
     /\ v[8] = Records([i \in DOMAIN Rows |-> P8(Rows[i])])
     /\ v[9] = Records([i \in DOMAIN Rows |-> P9(Rows[i])])
     /\ v[10] = Records([i \in DOMAIN Rows |-> P10(Rows[i])])
     /\ v[11] = Records([i \in DOMAIN Rows |-> P11(Rows[i])])
     /\ v[12] = Records([i \in DOMAIN Rows |-> P12(Rows[i])])

\* C4 as stated: the value of Total -> "PS1 > 15 Mins" is the number of
\* records whose Time_to_PS1_Mins is greater than 15, a record with a null
\* Time_to_PS1_Mins being counted in neither Level-1 branch.
C4_Original ==
  Returned => ret.sankey.value[2] = Records([i \in DOMAIN Rows |-> PS1Over(Rows[i])]) /\ C4_OtherEdges

\* C4: every funnel count is the number of records of the full table that
\* satisfy its node's predicate, where the value of Total -> "PS1 > 15 Mins"
\* is the number of records whose Time_to_PS1_Mins is not <= 15: those greater
\* than 15 and those that are null.
C4_FunnelCounts ==
  LET NotWithin(r) == ~PS1Within(r) IN
  Returned => ret.sankey.value[2] = Records([i \in DOMAIN Rows |-> NotWithin(Rows[i])]) /\ C4_OtherEdges

\* a record with a null Time_to_PS1_Mins was counted, beside one over 15
C4_Witness ==
  /\ Returned
  /\ \E i \in 1..Len(df_in.rows) : isna(df_in.rows[i]["Time_to_PS1_Mins"])
  /\ \E i \in 1..Len(df_in.rows) : PS1Over(df_in.rows[i])
  /\ ret.sankey.value[2] = 2

(***************************************************************************)
(* calculate_time_intervals (data_utils.py 91-110)                         *)
(***************************************************************************)
required_date_cols ==
  {"Arrival DTTM", "Triage DTTM", "First Pain Score DTTM",
   "First Analgesia DTTM", "Second Pain Score DTTM"}

\* a - b on two datetime columns: a Timedelta (here in seconds), NaT if
\* either operand is NaT
Sub(a, b) ==
  IF a.t = "ts" /\ b.t = "ts" THEN [t |-> "td", s |-> (a.m - b.m) * 60] ELSE NaN

\* .dt.total_seconds() / 60 : NaN for NaT; the seconds are a multiple of 60
Minutes(x) == IF x.t = "td" THEN Num(x.s \div 60) ELSE NaN

\* the (a - b).dt.total_seconds() / 60 column
IntervalColumn(d, a, b) ==
  [i \in 1..Len(d.rows) |-> Minutes(Sub(d.rows[i][a], d.rows[i][b]))]

\* lines 104-109
AssignIntervals(d) ==
  LET d1 == SetColumn(d, "Time_to_Triage_Mins",
                      IntervalColumn(d, "Triage DTTM", "Arrival DTTM"))
      d2 == SetColumn(d1, "Time_to_PS1_Mins",
                      IntervalColumn(d1, "First Pain Score DTTM", "Arrival DTTM"))
      d3 == SetColumn(d2, "Time_to_A1_Mins",
                      IntervalColumn(d2, "First Analgesia DTTM", "Arrival DTTM"))
      d4 == SetColumn(d3, "Time_to_PS2_Mins",
                      IntervalColumn(d3, "Second Pain Score DTTM", "Arrival DTTM"))
      d5 == SetColumn(d4, "A1_to_PS2_Mins",
                      IntervalColumn(d4, "Second Pain Score DTTM", "First Analgesia DTTM"))
      d6 == SetColumn(d5, "PS2_to_A1_Mins",
                      IntervalColumn(d5, "First Analgesia DTTM", "Second Pain Score DTTM"))
  IN d6

\* a variant that computes every interval whose two columns are present
calculate_time_intervals_percolumn(d) ==
  LET Add(e, name, a, b) ==
        IF {a, b} \subseteq d.cols THEN SetColumn(e, name, IntervalColumn(d, a, b))
        ELSE e
      d1 == Add(d, "Time_to_Triage_Mins", "Triage DTTM", "Arrival DTTM")
      d2 == Add(d1, "Time_to_PS1_Mins", "First Pain Score DTTM", "Arrival DTTM")
      d3 == Add(d2, "Time_to_A1_Mins", "First Analgesia DTTM", "Arrival DTTM")
      d4 == Add(d3, "Time_to_PS2_Mins", "Second Pain Score DTTM", "Arrival DTTM")
      d5 == Add(d4, "A1_to_PS2_Mins", "Second Pain Score DTTM", "First Analgesia DTTM")
      d6 == Add(d5, "PS2_to_A1_Mins", "First Analgesia DTTM", "Second Pain Score DTTM")
  IN d6

\* a variant whose PS2_to_A1 has the operands of A1_to_PS2
calculate_time_intervals_samesign(d) ==
  LET missing_cols == required_date_cols \ d.cols IN
  IF missing_cols # {} THEN d
  ELSE SetColumn(AssignIntervals(d), "PS2_to_A1_Mins",
                 IntervalColumn(d, "Second Pain Score DTTM", "First Analgesia DTTM"))

calculate_time_intervals(d) ==
  LET missing_cols == required_date_cols \ d.cols IN
  IF missing_cols # {} THEN d
  ELSE IF "Arrival DTTM" \in d.cols THEN AssignIntervals(d) ELSE d

(***************************************************************************)
(* Inputs of calculate_time_intervals: tables with any of the five         *)
(* datetime columns (as convert_date_columns leaves them: a timestamp or   *)
(* NaT) and the First Pain Score label.                                    *)
(***************************************************************************)
DateCells == {NaN, Ts(600), Ts(612)}

IntervalRows(cols) ==
  {r \in [cols -> DateCells \cup {Str("Sev Pain")}] :
     \A c \in cols : (c \in required_date_cols) <=> (r[c] \in DateCells)}

InitIntervals ==
  \E S \in SUBSET required_date_cols :
    \E d \in Tables(S \cup {"First Pain Score"},
                    IntervalRows(S \cup {"First Pain Score"}), MaxWideRows) :
      InitCall(d, None)

\* df = calculate_time_intervals(df): the columns are assigned in place
CalculateTimeIntervals ==
  /\ pc = "start"
  /\ ret' = calculate_time_intervals(df)
  /\ df' = ret'
  /\ pc' = "calculate_time_intervals"
  /\ UNCHANGED <<df_in, imd_df>>

SpecIntervals == InitIntervals /\ [][CalculateTimeIntervals]_vars

(***************************************************************************)
(* Properties of calculate_time_intervals.                                 *)
(***************************************************************************)
IntervalsReturned == pc = "calculate_time_intervals"

MinsCols ==
  {"Time_to_Triage_Mins", "Time_to_PS1_Mins", "Time_to_A1_Mins",
   "Time_to_PS2_Mins", "A1_to_PS2_Mins", "PS2_to_A1_Mins"}

\* the interval column name is "end - start", null when either is null
C5_IsDifference(i, name, end, start) ==
  LET e == df_in.rows[i][end]
      b == df_in.rows[i][start]
      v == ret.rows[i][name]
  IN IF e = NaN \/ b = NaN THEN v = NaN
     ELSE v.t = "num" /\ v.n = e.m - b.m

\* C5: with all five timestamp columns present, each of the six interval
\* columns is the signed difference in minutes of its timestamp pair, null
\* exactly when either operand is null; so PS2_to_A1 = -A1_to_PS2 when both
\* are non-null.
C5_Intervals ==
  (IntervalsReturned /\ required_date_cols \subseteq df_in.cols) =>
    /\ Len(ret.rows) = Len(df_in.rows)
    /\ MinsCols \subseteq ret.cols
    /\ \A i \in 1..Len(df_in.rows) :
         /\ C5_IsDifference(i, "Time_to_Triage_Mins", "Triage DTTM", "Arrival DTTM")
         /\ C5_IsDifference(i, "Time_to_PS1_Mins", "First Pain Score DTTM", "Arrival DTTM")
         /\ C5_IsDifference(i, "Time_to_A1_Mins", "First Analgesia DTTM", "Arrival DTTM")
         /\ C5_IsDifference(i, "Time_to_PS2_Mins", "Second Pain Score DTTM", "Arrival DTTM")
         /\ C5_IsDifference(i, "A1_to_PS2_Mins", "Second Pain Score DTTM", "First Analgesia DTTM")
         /\ C5_IsDifference(i, "PS2_to_A1_Mins", "First Analgesia DTTM", "Second Pain Score DTTM")
         /\ (ret.rows[i]["A1_to_PS2_Mins"] # NaN /\ ret.rows[i]["PS2_to_A1_Mins"] # NaN)
              => ret.rows[i]["PS2_to_A1_Mins"].n = 0 - ret.rows[i]["A1_to_PS2_Mins"].n

\* a record with a negative A1_to_PS2 and a null Time_to_PS1 was computed
C5_Witness ==
  /\ IntervalsReturned
  /\ required_date_cols \subseteq df_in.cols
  /\ \E i \in 1..Len(ret.rows) :
       /\ ret.rows[i]["Time_to_Triage_Mins"] = Num(12)
       /\ ret.rows[i]["A1_to_PS2_Mins"] = Num(-12)
       /\ ret.rows[i]["PS2_to_A1_Mins"] = Num(12)
       /\ ret.rows[i]["Time_to_PS1_Mins"] = NaN

\* C6: if any of the five required timestamp columns is absent, none of the
\* six *_Mins columns is added and every column and row is unchanged.
C6_MissingColumn ==
  (IntervalsReturned /\ ~(required_date_cols \subseteq df_in.cols)) =>
    /\ ret.cols \cap MinsCols = {}
    /\ ret = df_in
    /\ df = df_in

\* a table that lacks exactly one of the five columns, with a record whose
\* remaining timestamps are all present, was passed through
C6_Witness ==
  /\ IntervalsReturned
  /\ Cardinality(required_date_cols \ df_in.cols) = 1
  /\ Len(ret.rows) > 0
  /\ \A c \in df_in.cols : df_in.rows[1][c] # NaN

(***************************************************************************)
(* create_age_groups (data_utils.py 120-126)                               *)
(***************************************************************************)
Digits == <<"0", "1", "2", "3", "4", "5", "6", "7", "8", "9">>

IsDigit(c) == \E k \in 1..Len(Digits) : Digits[k] = c

DigitValue(c) == (CHOOSE k \in 1..Len(Digits) : Digits[k] = c) - 1

RECURSIVE DecimalValue(_)
DecimalValue(cs) ==
  IF cs = <<>> THEN 0
  ELSE 10 * DecimalValue(SubSeq(cs, 1, Len(cs) - 1)) + DigitValue(cs[Len(cs)])

\* pd.to_numeric(x, errors='coerce') for one cell: a number stays, a string
\* of digits is parsed, anything else becomes NaN
to_numeric(x) ==
  CASE x.t = "num" -> x
    [] x.t = "text" ->
         IF x.cs # <<>> /\ \A k \in 1..Len(x.cs) : IsDigit(x.cs[k])
         THEN Num(DecimalValue(x.cs)) ELSE NaN
    [] OTHER -> NaN

age_bins == <<0, 15, 25, 35, 45, 55, 65, 75, 85, 95, 150>>

age_labels ==
  <<"0-15", "15-25", "25-35", "35-45", "45-55", "55-65", "65-75", "75-85",
    "85-95", "95+">>

\* a variant of pd_cut with the default right=True: bins (lo, hi]
pd_cut_right(x, bins, binlabels) ==
  IF x.t = "num" /\ \E k \in 1..Len(binlabels) : bins[k] < x.n /\ x.n <= bins[k + 1]
  THEN Str(binlabels[CHOOSE k \in 1..Len(binlabels) : bins[k] < x.n /\ x.n <= bins[k + 1]])
  ELSE NaN

\* a variant of pd_cut whose last bin includes its upper edge
pd_cut_closed(x, bins, binlabels) ==
  IF x.t = "num" /\ bins[1] <= x.n /\ x.n <= bins[Len(bins)]
  THEN Str(binlabels[CHOOSE k \in 1..Len(binlabels) :
                       /\ bins[k] <= x.n
                       /\ (x.n < bins[k + 1] \/ k = Len(binlabels))])
  ELSE NaN

\* pd.cut(x, bins=bins, labels=binlabels, right=False) for one cell: the label
\* of the bin [lo, hi) that holds x, NaN if there is none or x is NaN
pd_cut(x, bins, binlabels) ==
  IF x.t = "num" /\ \E k \in 1..Len(binlabels) : bins[k] <= x.n /\ x.n < bins[k + 1]
  THEN Str(binlabels[CHOOSE k \in 1..Len(binlabels) : bins[k] <= x.n /\ x.n < bins[k + 1]])
  ELSE NaN

create_age_groups(d) ==
  LET d1 == SetColumn(d, "Age", [i \in 1..Len(d.rows) |-> to_numeric(d.rows[i]["Age"])])
  IN SetColumn(d1, "Age_Group",
               [i \in 1..Len(d1.rows) |-> pd_cut(d1.rows[i]["Age"], age_bins, age_labels)])

(***************************************************************************)
(* Inputs of create_age_groups: the Age column as read from the export,    *)
(* numbers around every bin edge, empty cells and text.                    *)
(***************************************************************************)
AgeCells ==
  {NaN, Text(<<"1", "5">>), Text(<<"1", "5", "0">>), Text(<<"a", "b">>)}
    \cup {Num(n) : n \in UNION {{age_bins[k] - 1, age_bins[k], age_bins[k] + 1} :
                                  k \in 1..Len(age_bins)}}

AgeRows == {[c \in {"Age", "Gender"} |-> IF c = "Age" THEN a ELSE Str("F")] : a \in AgeCells}

InitAge ==
  \E d \in Tables({"Age", "Gender"}, AgeRows, MaxRows) : InitCall(d, None)

\* df = create_age_groups(df): both columns are assigned in place
CreateAgeGroups ==
  /\ pc = "start"
  /\ ret' = create_age_groups(df)
  /\ df' = ret'
  /\ pc' = "create_age_groups"
  /\ UNCHANGED <<df_in, imd_df>>

SpecAge == InitAge /\ [][CreateAgeGroups]_vars

(***************************************************************************)
(* Properties of create_age_groups.                                        *)
(***************************************************************************)
AgeReturned == pc = "create_age_groups"

C7_LowerBounds == {0, 15, 25, 35, 45, 55, 65, 75, 85, 95}

C7_Band(lb) ==
  CASE lb = 0 -> "0-15"
    [] lb = 15 -> "15-25"
    [] lb = 25 -> "25-35"
    [] lb = 35 -> "35-45"
    [] lb = 45 -> "45-55"
    [] lb = 55 -> "55-65"
    [] lb = 65 -> "65-75"
    [] lb = 75 -> "75-85"
    [] lb = 85 -> "85-95"
    [] lb = 95 -> "95+"

\* the largest boundary that is <= a
C7_Floor(a) ==
  CHOOSE lb \in C7_LowerBounds : lb <= a /\ \A o \in C7_LowerBounds : o <= a => o <= lb

\* C7: a numeric Age a in [0,150) gets the band whose lower bound is the
\* largest boundary <= a; a null, non-numeric, negative or otherwise
\* out-of-range Age gets a null Age_Group.
C7_AgeGroups ==
  AgeReturned =>
    /\ Len(ret.rows) = Len(df_in.rows)
    /\ \A i \in 1..Len(df_in.rows) :
         LET raw == df_in.rows[i]["Age"]
             a == ret.rows[i]["Age"]
             g == ret.rows[i]["Age_Group"]
         IN /\ raw.t = "num" => a = raw
            /\ raw \in {NaN, Text(<<"a", "b">>)} => a = NaN
            /\ raw = Text(<<"1", "5">>) => a = Num(15)
            /\ IF a.t = "num" /\ 0 <= a.n /\ a.n < 150
               THEN g = Str(C7_Band(C7_Floor(a.n)))
               ELSE g = NaN

\* an Age on a boundary and a non-numeric Age were bucketed
C7_Witness ==
  /\ AgeReturned
  /\ \E i \in 1..Len(df_in.rows) :
       df_in.rows[i]["Age"] = Num(15) /\ ret.rows[i]["Age_Group"] = Str("15-25")
  /\ \E i \in 1..Len(df_in.rows) :
       df_in.rows[i]["Age"] = Text(<<"a", "b">>) /\ ret.rows[i]["Age_Group"] = NaN

\* C8 as stated: a record whose Age is exactly 150 gets Age_Group "95+".
C8_Original ==
  AgeReturned =>
    \A i \in 1..Len(df_in.rows) :
      df_in.rows[i]["Age"] = Num(150) => ret.rows[i]["Age_Group"] = Str("95+")

\* C8: a record whose Age is exactly 150 is left unbucketed (null
\* Age_Group): the band "95+" is [95, 150) and 149 is its last whole age.
C8_Age150Unbucketed ==
  AgeReturned =>
    \A i \in 1..Len(df_in.rows) :
      /\ ret.rows[i]["Age"] = Num(150) => ret.rows[i]["Age_Group"] = NaN
      /\ ret.rows[i]["Age"] = Num(149) => ret.rows[i]["Age_Group"] = Str("95+")

\* an Age of exactly 150 was bucketed
C8_Witness ==
  /\ AgeReturned
  /\ \E i \in 1..Len(df_in.rows) :
       df_in.rows[i]["Age"] = Num(150) /\ ret.rows[i]["Age_Group"] = NaN

(***************************************************************************)
(* load_imd_data, map_quintile, create_join_keys, merge_with_imd_data      *)
(* (data_utils.py 7-55)                                                    *)
(***************************************************************************)
\* the deciles of the reference file run from 1 to MaxDecile
MaxDecile == 10

DecileColumn ==
  "LSOA containing postcode - Index of Multiple Deprivation (IMD) Decile (where 1 is most deprived 10% of LSOAs)"

IMD_COLS == {"Postcode", DecileColumn}

\* pd.DataFrame()
EmptyFrame == [cols |-> {}, rows |-> <<>>]

\* df.empty
empty(d) == d.cols = {} \/ Len(d.rows) = 0

\* str(x) of a cell: text stays, a missing cell prints as "nan"
astype_str(x) == IF x.t = "text" THEN x.cs ELSE <<"n", "a", "n">>

Lower == <<"a", "b", "c", "d", "n">>

Upper == <<"A", "B", "C", "D", "N">>

upper_char(c) ==
  IF \E k \in 1..Len(Lower) : Lower[k] = c
  THEN Upper[CHOOSE k \in 1..Len(Lower) : Lower[k] = c]
  ELSE c

\* .str.upper()
str_upper(cs) == [k \in 1..Len(cs) |-> upper_char(cs[k])]

\* .str.replace(' ', '')
str_replace_space(cs) ==
  LET NotSpace(c) == c # " " IN SelectSeq(cs, NotSpace)

\* column.astype(str).str.upper().str.replace(' ', '') for one cell
join_key(x) == Text(str_replace_space(str_upper(astype_str(x))))

\* load_imd_data: file is the content of the CSV, or None if it cannot be
\* read; the result has the columns Postcode_Gov, IMD_Decile and Join_Key
load_imd_data(file) ==
  IF file = None \/ ~(IMD_COLS \subseteq file.cols) THEN EmptyFrame
  ELSE [cols |-> {"Postcode_Gov", "IMD_Decile", "Join_Key"},
        rows |-> [i \in 1..Len(file.rows) |->
                    [c \in {"Postcode_Gov", "IMD_Decile", "Join_Key"} |->
                       CASE c = "Postcode_Gov" -> file.rows[i]["Postcode"]
                         [] c = "IMD_Decile" -> file.rows[i][DecileColumn]
                         [] c = "Join_Key" -> join_key(file.rows[i]["Postcode"])]]]

\* a variant of map_quintile whose first test is strict
map_quintile_strict(decile) ==
  IF isna(decile) THEN "Unknown"
  ELSE IF decile.n < 2 THEN "1 - Most Deprived"
  ELSE IF decile.n <= 4 THEN "2"
  ELSE IF decile.n <= 6 THEN "3"
  ELSE IF decile.n <= 8 THEN "4"
  ELSE "5 - Least Deprived"

map_quintile(decile) ==
  IF isna(decile) THEN "Unknown"
  ELSE IF decile.n <= 2 THEN "1 - Most Deprived"
  ELSE IF decile.n <= 4 THEN "2"
  ELSE IF decile.n <= 6 THEN "3"
  ELSE IF decile.n <= 8 THEN "4"
  ELSE "5 - Least Deprived"

create_join_keys(d) ==
  SetColumn(d, "Join_Key", [i \in 1..Len(d.rows) |-> join_key(d.rows[i]["Postcode"])])

\* the left row r with the IMD_Decile cell x beside it
WithDecile(r, x) ==
  [c \in DOMAIN r \cup {"IMD_Decile"} |-> IF c = "IMD_Decile" THEN x ELSE r[c]]

\* the rows a left merge on Join_Key makes of the left row r: one per right
\* row with r's key, in the right table's order; one with NaN if there is none
RECURSIVE Matches(_, _)
Matches(r, right) ==
  IF right = <<>> THEN <<>>
  ELSE IF Head(right)["Join_Key"] = r["Join_Key"]
       THEN <<WithDecile(r, Head(right)["IMD_Decile"])>> \o Matches(r, Tail(right))
       ELSE Matches(r, Tail(right))

RECURSIVE MergeRows(_, _)
MergeRows(left, right) ==
  IF left = <<>> THEN <<>>
  ELSE (IF Matches(Head(left), right) = <<>>
        THEN <<WithDecile(Head(left), NaN)>>
        ELSE Matches(Head(left), right)) \o MergeRows(Tail(left), right)

\* df.merge(imd_df[['Join_Key', 'IMD_Decile']], on='Join_Key', how='left')
merge_left(d, right) ==
  [cols |-> d.cols \cup {"IMD_Decile"}, rows |-> MergeRows(d.rows, right.rows)]

\* df.drop(columns=names, errors='ignore')
drop(d, names) ==
  [cols |-> d.cols \ names,
   rows |-> [i \in 1..Len(d.rows) |-> [c \in d.cols \ names |-> d.rows[i][c]]]]

merge_with_imd_data(d, imd) ==
  IF imd # None /\ ~empty(imd)
  THEN LET m == merge_left(d, imd)
           q == SetColumn(m, "IMD_Quintile",
                          [i \in 1..Len(m.rows) |-> Str(map_quintile(m.rows[i]["IMD_Decile"]))])
       IN drop(q, {"Postcode", "Join_Key", "Postcode_Gov"})
  ELSE SetColumn(d, "IMD_Quintile", [i \in 1..Len(d.rows) |-> Str("Unknown")])

(***************************************************************************)
(* Inputs of the enrichment: an export with Postcode and Gender columns,   *)
(* and a reference file (or none).                                         *)
(***************************************************************************)
PatientRows ==
  {[c \in {"Postcode", "Gender"} |-> IF c = "Postcode" THEN p ELSE Str("F")] :
     p \in {NaN, Text(<<"a", "b", " ", "1">>), Text(<<"C", "D", "2">>)}}

DecileCells == {NaN} \cup {Num(k) : k \in 1..MaxDecile}

ReferenceRow(p, x) == [c \in IMD_COLS |-> IF c = "Postcode" THEN p ELSE x]

\* every decile for one postcode, one decile for another
ReferenceRows ==
  {ReferenceRow(Text(<<"c", "d", " ", "2">>), x) : x \in DecileCells}
    \cup {ReferenceRow(Text(<<"A", "B", "1">>), Num(5))}

ReferenceFiles == {None} \cup Tables(IMD_COLS, ReferenceRows, MaxRef)

InitMerge ==
  \E d \in Tables({"Postcode", "Gender"}, PatientRows, MaxRows) :
    \E file \in ReferenceFiles :
      \E imd \in {None, load_imd_data(file)} : InitCall(d, imd)

\* df = create_join_keys(df): the column is assigned in place
CreateJoinKeys ==
  /\ pc = "start"
  /\ ret' = create_join_keys(df)
  /\ df' = ret'
  /\ pc' = "create_join_keys"
  /\ UNCHANGED <<df_in, imd_df>>

\* df = merge_with_imd_data(df, imd_df): the merge makes a new table, the
\* branch without reference data assigns IMD_Quintile in place
MergeWithImdData ==
  /\ pc = "create_join_keys"
  /\ ret' = merge_with_imd_data(df, imd_df)
  /\ df' = IF imd_df # None /\ ~empty(imd_df) THEN df ELSE ret'
  /\ pc' = "merge_with_imd_data"
  /\ UNCHANGED <<df_in, imd_df>>

NextMerge == CreateJoinKeys \/ MergeWithImdData

SpecMerge == InitMerge /\ [][NextMerge]_vars

(***************************************************************************)
(* Properties of the enrichment.                                           *)
(***************************************************************************)
MergeReturned == pc = "merge_with_imd_data"

Joined == imd_df # None /\ ~empty(imd_df)

\* the labels whose range of deciles holds x
C9_Labels(x) ==
  {l \in {"Unknown", "1 - Most Deprived", "2", "3", "4", "5 - Least Deprived"} :
     \/ l = "Unknown" /\ x = NaN
     \/ l = "1 - Most Deprived" /\ x # NaN /\ x.n <= 2
     \/ l = "2" /\ x # NaN /\ 2 < x.n /\ x.n <= 4
     \/ l = "3" /\ x # NaN /\ 4 < x.n /\ x.n <= 6
     \/ l = "4" /\ x # NaN /\ 6 < x.n /\ x.n <= 8
     \/ l = "5 - Least Deprived" /\ x # NaN /\ 8 < x.n}

\* C9: map_quintile gives "Unknown" for a null decile, "1 - Most Deprived"
\* up to 2, "2" above 2 up to 4, "3" above 4 up to 6, "4" above 6 up to 8 and
\* "5 - Least Deprived" above 8: exactly one label for each decile.
C9_Quintile ==
  (MergeReturned /\ Joined) =>
    \A i \in 1..Len(ret.rows) :
      C9_Labels(ret.rows[i]["IMD_Decile"]) = {ret.rows[i]["IMD_Quintile"].s}

\* a record with decile 2 and a record without a decile were labelled
C9_Witness ==
  /\ MergeReturned
  /\ Joined
  /\ Len(ret.rows) = Len(df_in.rows)
  /\ \E i \in 1..Len(ret.rows) :
       /\ ret.rows[i]["IMD_Decile"] = Num(2)
       /\ ret.rows[i]["IMD_Quintile"] = Str("1 - Most Deprived")
  /\ \E i \in 1..Len(ret.rows) :
       /\ ret.rows[i]["IMD_Decile"] = NaN
       /\ ret.rows[i]["IMD_Quintile"] = Str("Unknown")

\* the reference entries that match the patient row r, in file order
C10_Matching(r) ==
  LET Same(e) == e["Join_Key"] = join_key(r["Postcode"]) IN SelectSeq(imd_df.rows, Same)

\* C10: the enrichment outputs exactly one record per input patient record,
\* in the same order, and a record matched by several reference entries
\* takes the decile of the first of them.
C10_NoRowMultiplication ==
  MergeReturned =>
    /\ Len(ret.rows) = Len(df_in.rows)
    /\ \A i \in 1..Len(df_in.rows) :
         /\ ret.rows[i]["Gender"] = df_in.rows[i]["Gender"]
         /\ (Joined /\ C10_Matching(df_in.rows[i]) # <<>>) =>
              ret.rows[i]["IMD_Decile"] = Head(C10_Matching(df_in.rows[i]))["IMD_Decile"]

\* the postcode of a cell upper-cased and stripped of spaces; a missing
\* postcode has none
C11_Normalised(x) ==
  IF x.t = "text" THEN <<str_replace_space(str_upper(x.cs))>> ELSE <<>>

\* the reference entries whose normalised postcode is that of the patient row r
C11_Entries(r) ==
  IF ~Joined \/ C11_Normalised(r["Postcode"]) = <<>> THEN {}
  ELSE {k \in 1..Len(imd_df.rows) :
          C11_Normalised(imd_df.rows[k]["Postcode_Gov"]) = C11_Normalised(r["Postcode"])}

\* C11: after create_join_keys and merge_with_imd_data a patient record's
\* IMD_Quintile is the quintile of the decile of the reference entry whose
\* normalised postcode equals the record's, and "Unknown" when no entry
\* matches or the reference table is absent or empty.
C11_QuintileOfMatch ==
  MergeReturned =>
    \A i \in 1..Len(df_in.rows) :
      IF C11_Entries(df_in.rows[i]) = {}
      THEN ret.rows[i]["IMD_Quintile"] = Str("Unknown")
      ELSE \E k \in C11_Entries(df_in.rows[i]) :
             ret.rows[i]["IMD_Quintile"].s \in C9_Labels(imd_df.rows[k]["IMD_Decile"])

\* C12: the table returned by merge_with_imd_data has IMD_Quintile and none
\* of Join_Key, IMD_Decile and Postcode, with and without a reference table.
C12_ScaffoldingDropped ==
  MergeReturned =>
    /\ "IMD_Quintile" \in ret.cols
    /\ ret.cols \cap {"Join_Key", "IMD_Decile", "Postcode"} = {}

(***************************************************************************)
(* process_monthly_data (data_utils.py 215-255, the definition in force:   *)
(* it rebinds the name defined at line 57) and its helpers.                *)
(***************************************************************************)
COLS_TO_DROP == {"Surname", "Forename"}

\* a cell of the export holding a date-time written in the format
\* '%d-%b-%y %H:%M', m being the minute it names
RawDate(m) == [t |-> "rawdate", m |-> m]

\* pd.read_excel(filepath, header=4), the headers stripped, and the drop of
\* COLS_TO_DROP; file is the table below the header row, its column names
\* already without the stray whitespace
load_and_clean_pain_data(file) == drop(file, COLS_TO_DROP)

\* pd.to_datetime(x, format='%d-%b-%y %H:%M', errors='coerce') for one cell
to_datetime(x) == IF x.t = "rawdate" THEN Ts(x.m) ELSE NaN

RECURSIVE ConvertColumns(_, _)
ConvertColumns(d, names) ==
  IF names = {} THEN d
  ELSE LET col == CHOOSE c \in names : TRUE IN
       ConvertColumns(
         IF col \in d.cols
         THEN SetColumn(d, col, [i \in 1..Len(d.rows) |-> to_datetime(d.rows[i][col])])
         ELSE d,
         names \ {col})

convert_date_columns(d, date_cols) == ConvertColumns(d, date_cols)

\* .dt.to_period('M').astype(str) for one cell: the calendar month, counted
\* from the epoch (a 1 January; exact within that January), 'NaT' for NaT
to_period_M(x) ==
  IF x.t = "ts" THEN [t |-> "period", month |-> (x.m \div (24 * 60)) \div 31]
  ELSE Str("NaT")

score_map(x) ==
  CASE x = Str("No Pain") -> Num(0)
    [] x = Str("Mild Pain") -> Num(1)
    [] x = Str("Mod Pain") -> Num(2)
    [] x = Str("Sev Pain") -> Num(3)
    [] OTHER -> NaN

\* Second_Score_Num - First_Score_Num for one row
Improvement(second, first) ==
  IF second = NaN \/ first = NaN THEN NaN ELSE Num(second.n - first.n)

calculate_pain_scores(d) ==
  LET d1 == SetColumn(d, "First_Score_Num",
                      [i \in 1..Len(d.rows) |-> score_map(d.rows[i]["First Pain Score"])])
      d2 == SetColumn(d1, "Second_Score_Num",
                      [i \in 1..Len(d1.rows) |-> score_map(d1.rows[i]["Second Pain Score"])])
  IN SetColumn(d2, "Pain_Score_Improvement",
               [i \in 1..Len(d2.rows) |->
                  Improvement(d2.rows[i]["Second_Score_Num"], d2.rows[i]["First_Score_Num"])])

\* the columns calculate_best_practice indexes df with
BestPracticeReads ==
  {"First Pain Score", "Time_to_PS1_Mins", "Time_to_A1_Mins", "A1_to_PS2_Mins"}

\* step 5 of process_monthly_data, d having Arrival DTTM; a df[...] on a
\* missing column raises KeyError, which line 253 turns into None
BasicCalculations(d) ==
  LET d1 == SetColumn(d, "Report_Month",
                      [i \in 1..Len(d.rows) |-> to_period_M(d.rows[i]["Arrival DTTM"])])
      d2 == calculate_time_intervals(d1)
  IN IF ~({"First Pain Score", "Second Pain Score"} \subseteq d2.cols) THEN None
     ELSE LET d3 == calculate_pain_scores(d2) IN
          IF "Age" \notin d3.cols THEN None
          ELSE LET d4 == create_age_groups(d3) IN
               IF ~(BestPracticeReads \subseteq d4.cols) THEN None
               ELSE calculate_best_practice(d4)

\* file is None when the upload cannot be read as a spreadsheet
process_monthly_data(file, imd) ==
  IF file = None THEN None
  ELSE LET d0 == load_and_clean_pain_data(file) IN
       IF "Postcode" \notin d0.cols THEN None
       ELSE LET d1 == create_join_keys(d0)
                d2 == merge_with_imd_data(d1, imd)
                d3 == convert_date_columns(d2, required_date_cols)
            IN IF "Arrival DTTM" \in d3.cols THEN BasicCalculations(d3) ELSE d3

(***************************************************************************)
(* app.py 37-66: the call and the handling of its result.                  *)
(***************************************************************************)
IsDataFrame(x) == DOMAIN x = {"cols", "rows"}

IsTuple(x) == DOMAIN x = {"df", "sankey"}

\* the keys of the dict that calculate_best_practice returns
SankeyKeys ==
  {"labels", "source", "target", "value", "total_patients", "best_practice_yes",
   "best_practice_no"}

\* pd.DataFrame(d, columns=names): the columns named, NaN where d has none
reindex_columns(d, names) ==
  [cols |-> names,
   rows |-> [i \in 1..Len(d.rows) |->
               [c \in names |-> IF c \in d.cols THEN d.rows[i][c] ELSE NaN]]]

\* lines 43-50: what the name df is bound to before the report is drawn
result_check(x) ==
  IF x # None /\ ~IsDataFrame(x) /\ IsTuple(x) THEN reindex_columns(x.df, SankeyKeys)
  ELSE x

\* lines 52-66 (and the Best_Practice tab): what the page shows for df
render(d) ==
  IF d = None THEN "st.error"
  ELSE IF ~({"Time_to_Triage_Mins", "Time_to_A1_Mins"} \subseteq d.cols) THEN "KeyError"
  ELSE IF Len(d.rows) = 0 THEN "ZeroDivisionError"
  ELSE IF ~({"Pain_Score_Improvement", "Best_Practice"} \subseteq d.cols) THEN "KeyError"
  ELSE "dashboard"

(***************************************************************************)
(* Inputs of process_monthly_data: an export with any of the five          *)
(* date-time columns and the other expected columns, or an unreadable      *)
(* file; no reference data or a one-entry reference table.                 *)
(***************************************************************************)
OtherExportCols ==
  {"Surname", "Age", "Gender", "Ethnicity", "Postcode", "First Pain Score",
   "Second Pain Score"}

\* a row of the export with the given columns; the cells that vary are the
\* Arrival, First Pain Score and First Analgesia date-times and the label
ExportRow(cols, arrival, ps1, a1, fps) ==
  [c \in cols |->
     CASE c = "Arrival DTTM" -> arrival
       [] c = "Triage DTTM" -> RawDate(612)
       [] c = "First Pain Score DTTM" -> ps1
       [] c = "First Analgesia DTTM" -> a1
       [] c = "Second Pain Score DTTM" -> RawDate(625)
       [] c = "First Pain Score" -> fps
       [] c = "Second Pain Score" -> Str("Mild Pain")
       [] c = "Age" -> Num(40)
       [] c = "Postcode" -> Text(<<"C", "D", "2">>)
       [] c = "Surname" -> Text(<<"a", "b">>)
       [] OTHER -> Str("F")]

ExportRows(cols) ==
  {ExportRow(cols, arrival, ps1, a1, fps) :
     arrival \in {RawDate(600), Text(<<"a", "b">>)},
     ps1 \in {RawDate(610), RawDate(620)},
     a1 \in {RawDate(615), NaN},
     fps \in {Str("Sev Pain"), Str("Mild Pain")}}

ExportFiles ==
  {None} \cup UNION {Tables(OtherExportCols \cup S, ExportRows(OtherExportCols \cup S),
                            MaxWideRows) : S \in SUBSET required_date_cols}

PipelineReferences ==
  {None,
   load_imd_data([cols |-> IMD_COLS,
                  rows |-> <<ReferenceRow(Text(<<"c", "d", " ", "2">>), Num(5))>>])}

\* app.py: uploaded_file and imd_df are set, df is not yet bound
InitPipeline ==
  \E file \in ExportFiles : \E imd \in PipelineReferences :
    /\ df_in = file
    /\ imd_df = imd
    /\ df = None
    /\ ret = None
    /\ pc = "start"

\* line 40: df = du.process_monthly_data(uploaded_file, imd_df)
ProcessMonthlyData ==
  /\ pc = "start"
  /\ ret' = process_monthly_data(df_in, imd_df)
  /\ df' = ret'
  /\ pc' = "process_monthly_data"
  /\ UNCHANGED <<df_in, imd_df>>

\* lines 43-66: the result check, then the report or the failure message
AppResultCheck ==
  /\ pc = "process_monthly_data"
  /\ df' = result_check(df)
  /\ pc' = render(df')
  /\ UNCHANGED <<df_in, imd_df, ret>>

NextPipeline == ProcessMonthlyData \/ AppResultCheck

SpecPipeline == InitPipeline /\ [][NextPipeline]_vars

(***************************************************************************)
(* Properties of process_monthly_data and of the handling of its result.   *)
(***************************************************************************)
Called == pc # "start"

Rendered == pc \notin {"start", "process_monthly_data"}

\* C13: when the export has Arrival DTTM but lacks one or more of the other
\* four timestamp columns, process_monthly_data does not report failure: it
\* returns the table, the derivations that could not be computed being
\* absent columns.
C13_PartialDerivation ==
  (Called /\ df_in # None /\ "Arrival DTTM" \in df_in.cols
     /\ ~(required_date_cols \subseteq df_in.cols)) =>
    /\ ret # None
    /\ IsDataFrame(ret)
    /\ ret.cols \cap MinsCols = {}

\* C14: if the export has zero data rows, process_monthly_data reports a
\* failure (no table is returned) and the report layer shows its failure
\* state instead of a dashboard.
C14_ZeroRowsFail ==
  (Called /\ df_in # None /\ Len(df_in.rows) = 0) =>
    /\ ret = None
    /\ Rendered => pc = "st.error"

\* C16: for an export with all expected columns process_monthly_data returns
\* the enriched table itself, one record per input row with the six *_Mins
\* intervals and Best_Practice in {"Yes", "No"}, without the funnel data, so
\* that after the result check the report reads its columns from that table.
C16_TableReturned ==
  (Called /\ df_in # None /\ required_date_cols \subseteq df_in.cols) =>
    /\ IsDataFrame(ret)
    /\ Len(ret.rows) = Len(df_in.rows)
    /\ MinsCols \cup {"Best_Practice"} \subseteq ret.cols
    /\ \A i \in 1..Len(ret.rows) : ret.rows[i]["Best_Practice"] \in {Str("Yes"), Str("No")}
    /\ Rendered => (df = ret /\ pc \notin {"KeyError", "st.error"})

(***************************************************************************)
(* calculate_stats (data_utils.py, lines 257-282).  The p-value that scipy *)
(* computes from the samples is an input of the call: a number, carried in *)
(* thousandths, where the samples admit a test, and an exception or NaN    *)
(* (which of the two depends on the scipy version) where they do not.      *)
(***************************************************************************)
MaxStatsRows == 3

\* line 277: the threshold 0.05, in thousandths
alpha == 50

\* df[col].dropna()
dropna(d, col) == SelectSeq([i \in 1..Len(d.rows) |-> d.rows[i][col]], LAMBDA x : ~isna(x))

\* Series.unique(): the distinct values in order of first appearance
RECURSIVE unique(_)
unique(xs) ==
  IF xs = <<>> THEN <<>>
  ELSE LET init == unique(SubSeq(xs, 1, Len(xs) - 1))
           last == xs[Len(xs)]
       IN IF \E k \in 1..Len(init) : init[k] = last THEN init ELSE Append(init, last)

\* line 264: df[df[group_col] == g][target_col].dropna()
group_data(d, group_col, target_col, g) ==
  dropna([d EXCEPT !.rows = SelectSeq(d.rows, LAMBDA r : r[group_col] = g)], target_col)

Raise == [t |-> "raise"]

\* what stats.mannwhitneyu / stats.kruskal can hand back for the samples:
\* an empty sample gives an exception or a NaN p-value, kruskal on samples
\* whose values are all identical raises, anything else gives a p-value
PValues == {Num(1), Num(49), Num(50), Num(1000)}

AllIdentical(samples) ==
  \A i, j \in 1..Len(samples) :
    \A a \in 1..Len(samples[i]) : \A b \in 1..Len(samples[j]) :
      samples[i][a] = samples[j][b]

mannwhitneyu(samples) ==
  IF \E i \in 1..Len(samples) : samples[i] = <<>> THEN {Raise, NaN} ELSE PValues

kruskal(samples) ==
  IF \E i \in 1..Len(samples) : samples[i] = <<>> THEN {Raise, NaN}
  ELSE IF AllIdentical(samples) THEN {Raise}
  ELSE PValues

\* lines 263-264
stats_groups(d, group_col) == unique(dropna(d, group_col))

stats_samples(d, group_col, target_col) ==
  LET groups == stats_groups(d, group_col)
  IN [k \in 1..Len(groups) |-> group_data(d, group_col, target_col, groups[k])]

\* lines 270-275: the test that is run, and the p-values it can give
stats_test(d, group_col, target_col) ==
  LET samples == stats_samples(d, group_col, target_col)
  IN IF Len(samples) < 2 THEN {None}
     ELSE IF Len(samples) = 2 THEN mannwhitneyu(samples)
     ELSE kruskal(samples)

\* lines 262-282, p being what the test hands back
calculate_stats(d, group_col, target_col, p) ==
  LET groups == stats_groups(d, group_col)
  IN IF Len(groups) < 2 THEN [p_value |-> None, msg |-> "Insufficient groups"]
     ELSE IF p = Raise THEN [p_value |-> None, msg |-> "Error calculating stats"]
     ELSE LET test_name == IF Len(groups) = 2 THEN "Mann-Whitney U" ELSE "Kruskal-Wallis"
              is_sig == p.t = "num" /\ p.n < alpha
              msg == IF is_sig THEN "Statistically Significant Difference"
                     ELSE "No Significant Difference"
          IN [test |-> test_name, p_value |-> p, significant |-> is_sig, message |-> msg]

StatsRows ==
  {[c \in {"Gender", "Time_to_A1_Mins"} |-> IF c = "Gender" THEN g ELSE o] :
     g \in {NaN, Str("F"), Str("M"), Str("X")}, o \in {NaN, Num(10), Num(20)}}

InitStats ==
  \E d \in Tables({"Gender", "Time_to_A1_Mins"}, StatsRows, MaxStatsRows) : InitCall(d, None)

\* stats_result = du.calculate_stats(plot_data, group_col, outcome_col)
CalculateStats ==
  /\ pc = "start"
  /\ \E p \in stats_test(df_in, "Gender", "Time_to_A1_Mins") :
       ret' = calculate_stats(df_in, "Gender", "Time_to_A1_Mins", p)
  /\ pc' = "calculate_stats"
  /\ UNCHANGED <<df, df_in, imd_df>>

SpecStats == InitStats /\ [][CalculateStats]_vars

(***************************************************************************)
(* Properties of calculate_stats.                                          *)
(***************************************************************************)
StatsReturned == pc = "calculate_stats"

\* the groups that keep at least one record once null group values and
\* null outcome values are dropped
NonEmptyGroups ==
  {g \in {Str("F"), Str("M"), Str("X")} :
     \E i \in 1..Len(df_in.rows) :
       /\ df_in.rows[i]["Gender"] = g
       /\ ~isna(df_in.rows[i]["Time_to_A1_Mins"])}

StatsFailure == [p_value |-> None, msg |-> "Error calculating stats"]

\* C15: calculate_stats dispatches on the number of groups that are
\* non-empty after null group values and null outcome values are dropped:
\* fewer than 2 gives the null p-value with the "Insufficient groups"
\* message, exactly 2 gives test = "Mann-Whitney U", more than 2 gives
\* test = "Kruskal-Wallis" (a computational failure of the test being
\* reported as such), and a returned test result has significant true
\* exactly when p_value < 0.05.
C15_Dispatch ==
  StatsReturned =>
    LET n == Cardinality(NonEmptyGroups)
    IN /\ n < 2 => ret = [p_value |-> None, msg |-> "Insufficient groups"]
       /\ n = 2 => (ret = StatsFailure \/ ("test" \in DOMAIN ret /\ ret.test = "Mann-Whitney U"))
       /\ n > 2 => (ret = StatsFailure \/ ("test" \in DOMAIN ret /\ ret.test = "Kruskal-Wallis"))
       /\ "test" \in DOMAIN ret =>
            (ret.significant <=> (ret.p_value.t = "num" /\ ret.p_value.n < alpha))

====
